---- MODULE Spec2Model ----
\* Open Loop Optimistic Planning (rl_agents/agents/tree_search/olop.py):
\* budget allocation, tree construction, node statistics, value computation
\* and the episode rollout, as a state machine.
\*
\* Numbers.  gamma is a rational p/q.  Rewards are integers (0 and 1 are the
\* ends of the admissible range, -1 and 2 lie outside it).  mu_ucb is kept in
\* units of 1/MuScale and node values in units of
\* 1/(MuScale * q^(horizon+1) * (q - p)), so that all the arithmetic of the
\* value computation is exact integer arithmetic.  Inf stands for numpy's
\* infinity and absorbs additions and multiplications by positive numbers.
\* The interpreter is Python 3: the keys of a mapping are a view, which cannot
\* be subscripted.
EXTENDS Integers, Sequences, FiniteSets, TLC

VARIABLES
    config,         \* planner configuration (self.config)
    env,            \* the planner's environment (self.env): its kind
    envs,           \* environment objects: reference -> environment state
    tree,           \* the look-ahead nodes: node id -> OLOPNode fields
    leaves,         \* self.leaves, a list of node ids
    pc,             \* position of the planner: new, plan, run, returned, error
    failure,        \* the exception that ended the planner, or "none"
    i,              \* loop variable of OLOP.plan: episodes completed
    state,          \* run's parameter `state`: a reference into envs
    best_sequence,  \* run's local best_sequence
    pos,            \* index of the next action of best_sequence to execute
    node,           \* run's local `node`
    terminal,       \* run's local `terminal`
    visits,         \* history: node id -> number of rollouts that entered the node
    absent          \* history: the node at which the last executed action was
                    \* not among the children, or NoNode

vars ==
    <<config, env, envs, tree, leaves, pc, failure, i, state, best_sequence,
      pos, node, terminal, visits, absent>>

-----------------------------------------------------------------------------
\* Bounds of the model.

\* Largest budget the allocation is checked for.
MaxBudget ==
    30

\* Largest explicitly configured horizon and episode count.
MaxHorizon ==
    1

MaxEpisodes ==
    2

\* Discount factors the allocation is checked for, as fractions p/q.
AllocGammas ==
    { [p |-> 1, q |-> 10], [p |-> 1, q |-> 2], [p |-> 2, q |-> 3], [p |-> 3, q |-> 4] }

\* Discount factors and budgets of the planning runs.
PlanGammas ==
    { [p |-> 1, q |-> 2], [p |-> 3, q |-> 4] }

PlanBudgets ==
    {2, 3, 4, 6}

\* Rewards an environment step may report; -1 and 2 are outside [0, 1].
Rewards ==
    {-1, 0, 1, 2}

\* Marks a configuration key that is not set.
NoKey ==
    -1

\* numpy.infty
Inf ==
    2000000000

\* One unit of mean reward in the fixed-point representation of mu_ucb.
MuScale ==
    12

\* The root's id is the empty action sequence; a child's id extends its
\* parent's id by the action that leads to it.
Root ==
    << >>

\* Stands for None where a node is expected (the root's parent).
NoNode ==
    << -1 >>

-----------------------------------------------------------------------------
\* Arithmetic helpers.

RECURSIVE Pow(_, _)
Pow(b, e) ==
    IF e = 0 THEN 1 ELSE b * Pow(b, e - 1)

Min2(a, b) ==
    IF a <= b THEN a ELSE b

Max2(a, b) ==
    IF a >= b THEN a ELSE b

Range(s) ==
    { s[k] : k \in DOMAIN s }

\* floor(sqrt(x))
ISqrt(x) ==
    CHOOSE r \in 0..x : r * r <= x /\ (r + 1) * (r + 1) > x

\* ceil(log2(x)) for x >= 1
RECURSIVE CeilLog2(_)
CeilLog2(x) ==
    IF x <= 1 THEN 0 ELSE 1 + CeilLog2((x + 1) \div 2)

\* Sum and product on numbers extended with Inf.
Plus(a, b) ==
    IF a = Inf \/ b = Inf THEN Inf ELSE a + b

Times(c, m) ==
    IF m = Inf THEN Inf ELSE c * m

-----------------------------------------------------------------------------
\* Budget allocation.

\* OLOP.horizon: int(ceil(log(episodes) / (2 log(1/gamma)))), the least h >= 0
\* with episodes <= (1/gamma)^(2h), i.e. episodes * p^(2h) <= q^(2h).
RECURSIVE HorizonFrom(_, _, _)
HorizonFrom(episodes, gamma, h) ==
    IF episodes * Pow(gamma.p, 2 * h) <= Pow(gamma.q, 2 * h)
    THEN h
    ELSE HorizonFrom(episodes, gamma, h + 1)

Horizon(episodes, gamma) ==
    HorizonFrom(episodes, gamma, 0)

\* A mutation of AllocationResult: the first episode count that exceeds the
\* budget is stored instead of its predecessor.
AllocationResultOffByOne(episodes, gamma) ==
    [raised |-> FALSE, episodes |-> episodes, horizon |-> Horizon(episodes, gamma)]

\* The body of the `if` of allocate_budget: what is stored before `break`.
AllocationResult(episodes, gamma) ==
    [raised |-> FALSE,
     episodes |-> episodes - 1,
     horizon |-> Horizon(episodes - 1, gamma)]

\* The for/else loop of allocate_budget, from loop value `episodes` on.
RECURSIVE AllocateFrom(_, _, _)
AllocateFrom(episodes, budget, gamma) ==
    IF episodes >= budget
    THEN [raised |-> TRUE, episodes |-> NoKey, horizon |-> NoKey]
    ELSE IF episodes * Horizon(episodes, gamma) > budget
         THEN AllocationResult(episodes, gamma)
         ELSE AllocateFrom(episodes + 1, budget, gamma)

AllocateBudget(budget, gamma) ==
    AllocateFrom(1, budget, gamma)

-----------------------------------------------------------------------------
\* The environment (an external collaborator): a road of lanes.  Action 0
\* moves one lane to the left, where there is one; every other action keeps
\* the lane.  In lane 0 action 0 is not available.  Every step advances the
\* environment's clock.  Rewards and termination are random: they are inputs
\* of the step that executes an action.

\* env.action_space.n
NActions ==
    2

\* The lane of the state the caller plans from.
StartLane ==
    2

EnvKinds ==
    {"plain", "masked"}

\* References to environment objects: the caller's state, the clone made for
\* an episode, the clone made for a child during an expansion.
CallerRef ==
    "caller"

CloneRef ==
    "clone"

ChildCloneRef ==
    "child_clone"

NoRef ==
    "None"

EnvRefs ==
    {CallerRef, CloneRef, ChildCloneRef}

InitialEnvState ==
    [lane |-> StartLane, time |-> 0]

\* state.step(action): the successor state.
EnvStep(s, action) ==
    [lane |-> IF action = 0 THEN Max2(s.lane - 1, 0) ELSE s.lane,
     time |-> s.time + 1]

\* range(n) as a list
RangeList(n) ==
    [k \in 1..n |-> k - 1]

\* state.get_available_actions() of a masked environment.
GetAvailableActions(s) ==
    IF s.lane > 0 THEN RangeList(NActions) ELSE [k \in 1..(NActions - 1) |-> k]

\* safe_deepcopy_env(state): an independent copy of the state, stored under
\* reference `to`.
SafeDeepcopyEnv(es, from, to) ==
    [es EXCEPT ![to] = es[from]]

-----------------------------------------------------------------------------
\* The confidence-bound oracle (rl_agents.agents.utils), in units of 1/MuScale.

\* mean + sqrt(2 log(time) / count)
HoeffdingUpperBound(sum, count, time) ==
    (sum * MuScale) \div count
        + ISqrt((2 * CeilLog2(time) * MuScale * MuScale) \div count)

\* The Kullback-Leibler bound never exceeds the largest reward, 1.
KlUpperBound(sum, count, time) ==
    Min2(MuScale, HoeffdingUpperBound(sum, count, time))

-----------------------------------------------------------------------------
\* Look-ahead nodes.

\* OLOPNode.STOP_ON_ANY_TERMINAL_STATE
STOP_ON_ANY_TERMINAL_STATE ==
    TRUE

\* OLOPNode.__init__ (children and count as the base class Node sets them).
NewNode(parent) ==
    [parent |-> parent,
     children |-> << >>,
     count |-> 0,
     cumulative_reward |-> 0,
     mu_ucb |-> IF config.upper_bound = "kullback-leibler" THEN MuScale ELSE Inf,
     done |-> FALSE]

\* The id of the node stored under key `action` of node n's children.
ChildId(n, action) ==
    Append(n, action)

\* The keys of a mapping after `mapping[action] = ...`, in insertion order.
DictSet(keys, action) ==
    IF action \in Range(keys) THEN keys ELSE Append(keys, action)

\* A mutation of Update: the sample is folded in before the reward is checked.
UpdateCheckedLate(n, reward, done) ==
    [raised |-> ~(0 <= reward /\ reward <= 1),
     node |-> [n EXCEPT !.cumulative_reward = @ + reward, !.count = @ + 1]]

\* A mutation of Update: the sample is not counted.
UpdateNotCounted(n, reward, done) ==
    IF ~(0 <= reward /\ reward <= 1)
    THEN [raised |-> TRUE, node |-> n]
    ELSE [raised |-> FALSE,
          node |-> [n EXCEPT !.cumulative_reward = @ + reward,
                             !.done = @ \/ (done /\ STOP_ON_ANY_TERMINAL_STATE)]]

\* OLOPNode.update(reward, done) on node record n: whether it raised, and the
\* node after the call.
Update(n, reward, done) ==
    IF ~(0 <= reward /\ reward <= 1)
    THEN [raised |-> TRUE, node |-> n]
    ELSE LET cumulative_reward == n.cumulative_reward + reward
             count == n.count + 1
             mu_ucb ==
                 IF config.upper_bound = "hoeffding"
                 THEN HoeffdingUpperBound(cumulative_reward, count, config.episodes)
                 ELSE IF config.upper_bound = "kullback-leibler"
                      THEN KlUpperBound(cumulative_reward, count, config.episodes)
                      ELSE n.mu_ucb
         IN  [raised |-> FALSE,
              node |-> [n EXCEPT !.cumulative_reward = cumulative_reward,
                                 !.count = count,
                                 !.mu_ucb = mu_ucb,
                                 !.done = @ \/ (done /\ STOP_ON_ANY_TERMINAL_STATE)]]

\* The actions expand enumerates: the available actions the state reports,
\* or the whole action space when it reports none (AttributeError).
ExpandActions(s) ==
    IF env.kind = "masked" THEN GetAvailableActions(s) ELSE RangeList(NActions)

\* The `for action in actions` loop of OLOPNode.expand, from the k-th action
\* on.  r holds the tree, the environment objects and whether an update
\* raised; samples[action] is what the child's clone reports when stepped.
RECURSIVE ExpandLoop(_, _, _, _, _, _, _)
ExpandLoop(r, n, st, actions, k, update_children, samples) ==
    IF k > Len(actions) \/ r.raised
    THEN r
    ELSE LET action == actions[k]
             child == ChildId(n, action)
             withChild ==
                 [m \in DOMAIN r.tree \cup {child} |->
                     IF m = child THEN NewNode(n)
                     ELSE IF m = n
                          THEN [r.tree[n] EXCEPT !.children = DictSet(@, action)]
                          ELSE r.tree[m]]
         IN  IF ~update_children
             THEN ExpandLoop([r EXCEPT !.tree = withChild],
                             n, st, actions, k + 1, update_children, samples)
             ELSE LET copied == SafeDeepcopyEnv(r.envs, st, ChildCloneRef)
                      stepped ==
                          [copied EXCEPT
                              ![ChildCloneRef] = EnvStep(@, action)]
                      up == Update(withChild[child],
                                   samples[action].reward, samples[action].done)
                  IN  ExpandLoop([tree |-> [withChild EXCEPT ![child] = up.node],
                                  envs |-> stepped,
                                  raised |-> up.raised],
                                 n, st, actions, k + 1, update_children, samples)

\* list.remove(x): the list without its first x.
RECURSIVE ListRemove(_, _)
ListRemove(lv, x) ==
    IF lv = << >> THEN << >>
    ELSE IF Head(lv) = x THEN Tail(lv)
         ELSE << Head(lv) >> \o ListRemove(Tail(lv), x)

\* The values of node n's children mapping, in insertion order.
ChildrenValues(t, n) ==
    [k \in DOMAIN t[n].children |-> ChildId(n, t[n].children[k])]

\* A mutation of ExpandLeaves: the expanded node stays in the leaf list.
ExpandLeavesKeepParent(t, lv, n) ==
    lv \o ChildrenValues(t, n)

\* The last two statements of OLOPNode.expand, on the leaf list lv.
ExpandLeaves(t, lv, n) ==
    ListRemove(lv, n) \o ChildrenValues(t, n)

\* OLOPNode.expand(state, leaves, update_children) on node n: the tree, the
\* leaf list and the environment objects after the call, and whether it raised.
Expand(t, lv, es, n, st, update_children, samples) ==
    IF st = NoRef
    THEN [tree |-> t, leaves |-> lv, envs |-> es, raised |-> TRUE]
    ELSE LET r == ExpandLoop([tree |-> t, envs |-> es, raised |-> FALSE],
                             n, st, ExpandActions(es[st]), 1,
                             update_children, samples)
         IN  IF r.raised \/ n \notin Range(lv)
             THEN [tree |-> r.tree, leaves |-> lv, envs |-> r.envs, raised |-> TRUE]
             ELSE [tree |-> r.tree,
                   leaves |-> ExpandLeaves(r.tree, lv, n),
                   envs |-> r.envs,
                   raised |-> FALSE]

\* Node.expand(branching_factor) of the base class: one child per action of
\* range(branching_factor).
NodeExpand(t, n, branching_factor) ==
    [m \in DOMAIN t \cup { ChildId(n, a) : a \in 0..(branching_factor - 1) } |->
        IF m = n THEN [t[n] EXCEPT !.children = RangeList(branching_factor)]
        ELSE IF m \in DOMAIN t THEN t[m]
             ELSE NewNode(n)]

\* The inner loop of prebuild_tree: the leaves lv[k..] are expanded in turn.
RECURSIVE PrebuildLevel(_, _, _, _, _)
PrebuildLevel(t, lv, k, next_leaves, branching_factor) ==
    IF k > Len(lv)
    THEN [tree |-> t, leaves |-> next_leaves]
    ELSE LET expanded == NodeExpand(t, lv[k], branching_factor)
         IN  PrebuildLevel(expanded, lv, k + 1,
                           next_leaves \o ChildrenValues(expanded, lv[k]),
                           branching_factor)

\* OLOP.prebuild_tree: `levels` passes of the outer loop.
RECURSIVE PrebuildTree(_, _, _, _)
PrebuildTree(t, lv, branching_factor, levels) ==
    IF levels = 0
    THEN [tree |-> t, leaves |-> lv]
    ELSE LET level == PrebuildLevel(t, lv, 1, << >>, branching_factor)
         IN  PrebuildTree(level.tree, level.leaves, branching_factor, levels - 1)

-----------------------------------------------------------------------------
\* Value computation.  Values are in units of
\* 1 / (MuScale * q^(horizon+1) * (q - p)) for gamma = p/q.

\* Node.path() of the base class: the actions from the root to node n.
RECURSIVE Path(_, _)
Path(t, n) ==
    IF t[n].parent = NoNode
    THEN << >>
    ELSE LET parent == t[n].parent
         IN  Append(Path(t, parent),
                    CHOOSE a \in Range(t[parent].children) : ChildId(parent, a) = n)

\* gamma ** (len(path) + 1) / (1 - gamma)
RewardToGo(depth) ==
    MuScale * Pow(config.gamma.p, depth + 1)
            * Pow(config.gamma.q, config.horizon + 1 - depth)

\* gamma ** t * mu_ucb
Discounted(t, mu_ucb) ==
    Times((config.gamma.q - config.gamma.p) * Pow(config.gamma.p, t)
              * Pow(config.gamma.q, config.horizon + 1 - t),
          mu_ucb)

\* The loop of compute_u_values: t runs from len(path) down to 1 while node_t
\* climbs to the root.
RECURSIVE SumUcb(_, _, _)
SumUcb(tr, node_t, t) ==
    IF t = 0 THEN 0
    ELSE Plus(Discounted(t, tr[node_t].mu_ucb), SumUcb(tr, tr[node_t].parent, t - 1))

\* OLOP.compute_u_values: the value it stores in node n.
ComputeUValues(tr, n) ==
    Plus(IF ~tr[n].done THEN RewardToGo(Len(Path(tr, n))) ELSE 0,
         SumUcb(tr, n, Len(Path(tr, n))))

\* The while loop of sharpen_b_values.
RECURSIVE SharpenLoop(_, _, _)
SharpenLoop(tr, node_t, min_value) ==
    IF tr[node_t].parent = NoNode
    THEN min_value
    ELSE SharpenLoop(tr, tr[node_t].parent,
                     Min2(min_value, ComputeUValues(tr, node_t)))

\* A mutation of SharpenBValues: the value is never sharpened.
SharpenBValuesSkipped(tr, n) ==
    ComputeUValues(tr, n)

\* OLOP.sharpen_b_values(node), after compute_u_values has visited the tree.
SharpenBValues(tr, n) ==
    IF config.upper_bound = "kullback-leibler"
    THEN ComputeUValues(tr, n)
    ELSE SharpenLoop(tr, n, ComputeUValues(tr, n))

\* numpy.argmax: the first index of a largest element.
ArgMax(s) ==
    CHOOSE k \in DOMAIN s :
        /\ \A j \in DOMAIN s : s[j] <= s[k]
        /\ \A j \in 1..(k - 1) : s[j] < s[k]

\* The sequence run executes: the path of the leaf with the largest sharpened
\* value, cut and padded with zeros to the horizon under lazy construction.
BestSequence(tr, lv) ==
    LET sequences_upper_bounds == [k \in DOMAIN lv |-> SharpenBValues(tr, lv[k])]
        best == Path(tr, lv[ArgMax(sequences_upper_bounds)])
    IN  IF config.lazy_tree_construction
        THEN SubSeq(best, 1, Min2(Len(best), config.horizon))
                 \o [k \in 1..Max2(0, config.horizon - Len(best)) |-> 0]
        ELSE best

-----------------------------------------------------------------------------
\* Pieces of plan and run.

\* A mutation of EpisodeState: run is handed the caller's state itself.
EpisodeStateShared(es) ==
    [envs |-> es, state |-> CallerRef]

\* plan: the argument of self.run, safe_deepcopy_env(state).
EpisodeState(es) ==
    [envs |-> SafeDeepcopyEnv(es, CallerRef, CloneRef), state |-> CloneRef]

\* run: the action executed on the tree when `action` is the next action of
\* the sequence and keys are the current node's children.  Subscripting the
\* key view of a mapping raises TypeError.
SubstituteAction(keys, action) ==
    IF action \notin Range(keys)
    THEN [raised |-> TRUE, action |-> action]
    ELSE [raised |-> FALSE, action |-> action]

\* A mutation of BreakOnDone: the rollout goes on after a terminal step.
BreakOnDoneNever(done) ==
    FALSE

\* run: `if done: break`.
BreakOnDone(done) ==
    done

\* The history of visits after a step from node `from` that entered `entered`
\* (NoNode: none), over the nodes of tree tr.
Visited(tr, from, entered) ==
    [n \in DOMAIN tr |->
        (IF n \in DOMAIN visits THEN visits[n] ELSE 0)
            + (IF n = entered \/ (n = from /\ from = Root) THEN 1 ELSE 0)]

-----------------------------------------------------------------------------
\* Initial states.

UpperBounds ==
    {"hoeffding", "kullback-leibler"}

\* Configurations with an explicit horizon and episode count.
ExplicitConfigs ==
    [budget : {MaxBudget}, gamma : PlanGammas, horizon : 0..MaxHorizon,
     episodes : 1..MaxEpisodes, upper_bound : UpperBounds,
     lazy_tree_construction : BOOLEAN]

\* Configurations whose horizon and episode count come from the budget.
BudgetConfigs(budgets, gammas, upper_bounds, lazy) ==
    [budget : budgets, gamma : gammas, horizon : {NoKey}, episodes : {NoKey},
     upper_bound : upper_bounds, lazy_tree_construction : lazy]

InitPlanner ==
    /\ envs = [r \in EnvRefs |-> InitialEnvState]
    /\ tree = << >>
    /\ leaves = << >>
    /\ pc = "new"
    /\ failure = "none"
    /\ i = 0
    /\ state = NoRef
    /\ best_sequence = << >>
    /\ pos = 0
    /\ node = Root
    /\ terminal = FALSE
    /\ visits = << >>
    /\ absent = NoNode

Init ==
    /\ config \in ExplicitConfigs
                    \cup BudgetConfigs(PlanBudgets, PlanGammas, UpperBounds, BOOLEAN)
    /\ env \in [kind : EnvKinds]
    /\ InitPlanner

InitAlloc ==
    /\ config \in BudgetConfigs(1..MaxBudget, AllocGammas, {"hoeffding"}, {FALSE})
    /\ env = [kind |-> "plain"]
    /\ InitPlanner

-----------------------------------------------------------------------------
\* Actions.

\* OLOP.allocate_budget, called on its own.
AllocateBudgetCall ==
    /\ pc = "new"
    /\ LET alloc == AllocateBudget(config.budget, config.gamma)
       IN  IF alloc.raised
           THEN /\ pc' = "error"
                /\ failure' = "AllocationError"
                /\ UNCHANGED config
           ELSE /\ pc' = "allocated"
                /\ config' = [config EXCEPT !.episodes = alloc.episodes,
                                            !.horizon = alloc.horizon]
                /\ UNCHANGED failure
    /\ UNCHANGED <<env, envs, tree, leaves, i, state, best_sequence, pos, node,
                   terminal, visits, absent>>

\* OLOP.make_root: the root, the allocation when no horizon is configured,
\* and the prebuilt tree unless construction is lazy.
MakeRoot ==
    /\ pc = "new"
    /\ LET root == (Root :> NewNode(NoNode))
           alloc ==
               IF config.horizon = NoKey
               THEN AllocateBudget(config.budget, config.gamma)
               ELSE [raised |-> FALSE, episodes |-> config.episodes,
                     horizon |-> config.horizon]
           built ==
               IF ~config.lazy_tree_construction
               THEN PrebuildTree(root, << Root >>, NActions, alloc.horizon)
               ELSE [tree |-> root, leaves |-> << Root >>]
       IN  IF alloc.raised
           THEN /\ tree' = root
                /\ leaves' = << Root >>
                /\ pc' = "error"
                /\ failure' = "AllocationError"
                /\ UNCHANGED config
           ELSE /\ tree' = built.tree
                /\ leaves' = built.leaves
                /\ pc' = "plan"
                /\ config' = [config EXCEPT !.episodes = alloc.episodes,
                                            !.horizon = alloc.horizon]
                /\ UNCHANGED failure
    /\ visits' = [n \in DOMAIN tree' |-> 0]
    /\ UNCHANGED <<env, envs, i, state, best_sequence, pos, node, terminal, absent>>

\* plan: one pass of the loop up to the rollout of run: the clone, the values,
\* the best sequence.  An empty sequence ends the episode at once.
PlanEpisode ==
    /\ pc = "plan"
    /\ i < config.episodes
    /\ LET arg == EpisodeState(envs)
           sequence == BestSequence(tree, leaves)
       IN  /\ envs' = arg.envs
           /\ state' = arg.state
           /\ best_sequence' = sequence
           /\ IF sequence = << >>
              THEN /\ pc' = "plan"
                   /\ i' = i + 1
                   /\ pos' = 0
              ELSE /\ pc' = "run"
                   /\ i' = i
                   /\ pos' = 1
    /\ node' = Root
    /\ terminal' = FALSE
    /\ absent' = NoNode
    /\ UNCHANGED <<config, env, tree, leaves, failure, visits>>

\* run: one pass of the rollout loop, with the reward and the termination
\* flag the environment reports.
RunStep ==
    /\ pc = "run"
    /\ \E reward \in Rewards, done \in BOOLEAN :
        LET action == best_sequence[pos]
            stepped == [envs EXCEPT ![state] = EnvStep(@, action)]
            ex == IF tree[node].children = << >>
                  THEN Expand(tree, leaves, stepped, node, state, FALSE, << >>)
                  ELSE [tree |-> tree, leaves |-> leaves, envs |-> stepped,
                        raised |-> FALSE]
            sub == SubstituteAction(ex.tree[node].children, action)
            child == ChildId(node, sub.action)
            up == Update(ex.tree[child], reward, done)
        IN  /\ envs' = ex.envs
            /\ leaves' = ex.leaves
            /\ terminal' = (terminal \/ done)
            /\ absent' = IF action \notin Range(ex.tree[node].children)
                         THEN node ELSE NoNode
            /\ IF ex.raised \/ sub.raised
               THEN /\ tree' = ex.tree
                    /\ node' = node
                    /\ visits' = Visited(ex.tree, node, NoNode)
                    /\ pc' = "error"
                    /\ failure' = IF ex.raised THEN "ExpandError" ELSE "TypeError"
                    /\ UNCHANGED <<i, pos>>
               ELSE /\ node' = child
                    /\ visits' = Visited(ex.tree, node, child)
                    /\ tree' = [ex.tree EXCEPT ![child] = up.node]
                    /\ IF up.raised
                       THEN /\ pc' = "error"
                            /\ failure' = "DomainError"
                            /\ UNCHANGED <<i, pos>>
                       ELSE /\ UNCHANGED failure
                            /\ IF BreakOnDone(done) \/ pos = Len(best_sequence)
                               THEN /\ pc' = "plan"
                                    /\ i' = i + 1
                                    /\ pos' = pos
                               ELSE /\ pc' = "run"
                                    /\ i' = i
                                    /\ pos' = pos + 1
    /\ UNCHANGED <<config, env, state, best_sequence>>

\* plan: the loop is over and the plan is returned.
PlanReturn ==
    /\ pc = "plan"
    /\ i >= config.episodes
    /\ pc' = "returned"
    /\ UNCHANGED <<config, env, envs, tree, leaves, failure, i, state,
                   best_sequence, pos, node, terminal, visits, absent>>

Next ==
    \/ MakeRoot
    \/ PlanEpisode
    \/ RunStep
    \/ PlanReturn

Spec ==
    Init /\ [][Next]_vars

NextAlloc ==
    AllocateBudgetCall

SpecAlloc ==
    InitAlloc /\ [][NextAlloc]_vars

-----------------------------------------------------------------------------
\* Helpers of the properties.

MinOf(S) ==
    CHOOSE x \in S : \A y \in S : x <= y

\* The statistics of a node record.
Stats(r) ==
    << r.count, r.cumulative_reward, r.mu_ucb, r.done >>

\* The statistics node n had in tree tr, a node not yet created counting as new.
StatsIn(tr, n) ==
    IF n \in DOMAIN tr THEN Stats(tr[n]) ELSE Stats(NewNode(NoNode))

\* The nodes reachable from n through the children mappings.
RECURSIVE Descendants(_, _)
Descendants(tr, n) ==
    {n} \cup UNION { Descendants(tr, ChildId(n, a)) : a \in Range(tr[n].children) }

\* The environment state reached from the caller's state by the actions of
\* `prefix`.
RECURSIVE StateAfter(_)
StateAfter(prefix) ==
    IF prefix = << >>
    THEN envs[CallerRef]
    ELSE EnvStep(StateAfter(SubSeq(prefix, 1, Len(prefix) - 1)), prefix[Len(prefix)])

\* The values of compute_u_values on the nodes of the path to n, from the
\* node at depth `from` down to n.
PathValues(n, from) ==
    { ComputeUValues(tree, SubSeq(n, 1, j)) : j \in from..Len(n) }

-----------------------------------------------------------------------------
\* Properties.

\* C1: when allocate_budget returns normally, horizon = horizon(episodes, gamma),
\* episodes >= 1, episodes * horizon <= budget, and no larger episode count
\* fits the budget.
C1_AllocationMaximal ==
    pc = "allocated" =>
        /\ config.horizon = Horizon(config.episodes, config.gamma)
        /\ config.episodes >= 1
        /\ config.episodes * config.horizon <= config.budget
        /\ \A M \in (config.episodes + 1)..(config.budget + 1) :
               M * Horizon(M, config.gamma) > config.budget

C1_Witness ==
    /\ pc = "allocated"
    /\ config.episodes >= 3
    /\ config.horizon >= 2
    /\ config.episodes * config.horizon < config.budget

\* C2: allocate_budget fails only if no episode count M with 1 <= M < budget
\* satisfies M * horizon(M, gamma) <= budget; whenever some M does, the
\* allocation succeeds.
C2_FailsOnlyWithoutSplit ==
    failure = "AllocationError" =>
        ~ \E M \in 1..(config.budget - 1) :
              M * Horizon(M, config.gamma) <= config.budget

\* C3: an update with a reward outside [0, 1] raises and leaves count,
\* cumulative_reward, mu_ucb and done of the node (and of every node) as they
\* were before the call.
C3_RejectedRewardLeavesNode ==
    [][ (failure = "none" /\ failure' = "DomainError") =>
            \A n \in DOMAIN tree' : Stats(tree'[n]) = StatsIn(tree, n) ]_vars

C3_Witness ==
    /\ failure = "DomainError"
    /\ terminal
    /\ tree[node].count >= 1
    /\ ~tree[node].done

\* C4: a rollout never goes on after a step that reported done; the node that
\* step reached is updated once and marked done, no other node is updated or
\* marked in that step or before the next episode starts, and a done flag
\* never falls back to false.
C4_RolloutStopsAtDone ==
    [][ /\ pc' = "run" => ~terminal'
        /\ \A n \in DOMAIN tree : tree[n].done => tree'[n].done
        /\ (pc = "run" /\ terminal' /\ failure' = "none") =>
               /\ tree'[node'].done
               /\ tree'[node'].count = StatsIn(tree, node')[1] + 1
               /\ \A n \in DOMAIN tree' \ {node'} : Stats(tree'[n]) = StatsIn(tree, n)
        /\ pc # "run" =>
               \A n \in DOMAIN tree : Stats(tree'[n]) = Stats(tree[n]) ]_vars

C4_Witness ==
    /\ pc = "plan"
    /\ terminal
    /\ pos < Len(best_sequence)
    /\ tree[node].done
    /\ \E n \in DOMAIN tree \ {node} : tree[n].done

\* C5: once the root is made, the leaf list holds exactly the nodes reachable
\* from the root that have no children, each once; a prebuilt node has no
\* children or one per action of the action space; and an expansion creates
\* as many new children as actions are available, removes the expanded node
\* from the leaf list and adds all its children.
C5_LeavesAreChildless ==
    pc # "new" =>
        /\ Range(leaves) = { n \in Descendants(tree, Root) : tree[n].children = << >> }
        /\ Cardinality(Range(leaves)) = Len(leaves)
        /\ ~config.lazy_tree_construction =>
               \A n \in DOMAIN tree :
                   tree[n].children = << >> \/ Len(tree[n].children) = NActions

C5_ExpansionStep ==
    \A n \in DOMAIN tree :
        (tree[n].children = << >> /\ tree'[n].children # << >>) =>
            LET kids == { ChildId(n, a) : a \in Range(tree'[n].children) }
            IN  /\ Len(tree'[n].children) = Len(ExpandActions(envs'[state']))
                /\ Cardinality(kids) = Len(tree'[n].children)
                /\ kids \cap DOMAIN tree = {}
                /\ n \in Range(leaves)
                /\ Range(leaves') = (Range(leaves) \ {n}) \cup kids

C5_LeavesInvariant ==
    [] C5_LeavesAreChildless /\ [][C5_ExpansionStep]_vars

C5_Witness ==
    /\ config.lazy_tree_construction
    /\ pc = "plan"
    /\ i >= 2
    /\ Len(leaves) >= 4

\* C6 as claimed: every node, the root included, has count equal to the
\* number of rollouts that passed through it.
C6_CountsOfAllNodes ==
    failure # "DomainError" =>
        \A n \in DOMAIN tree : tree[n].count = visits[n]

\* C6 as amended: as long as no update has raised, every node other than the
\* root has count equal to the number of rollouts that passed through it, and
\* the root's count stays 0.
C6_CountsOfNonRootNodes ==
    failure # "DomainError" =>
        \A n \in DOMAIN tree :
            tree[n].count = IF n = Root THEN 0 ELSE visits[n]

C6_Witness ==
    /\ pc = "returned"
    /\ visits[Root] >= 2
    /\ tree[Root].count = 0
    /\ \E n \in DOMAIN tree \ {Root} : tree[n].count >= 2
    /\ \E n \in DOMAIN tree \ {Root} : tree[n].count = 0

\* C7: the caller's environment state is never stepped; a rollout steps a
\* clone made for its episode, which starts as a copy of the caller's state.
C7_CallerStateUntouched ==
    /\ envs[CallerRef] = InitialEnvState
    /\ pc = "run" =>
           /\ state # CallerRef
           /\ envs[state].time = envs[CallerRef].time + pos - 1

C7_Witness ==
    /\ pc = "returned"
    /\ i >= 2
    /\ envs[CloneRef].lane # envs[CallerRef].lane
    /\ \E n \in DOMAIN tree : tree[n].done

\* C8 as claimed: without the Kullback-Leibler oracle the score of a leaf is
\* the minimum of the values of the leaf and all its ancestors, the root
\* included; with it, the leaf's own value.
C8_SharpenedOverWholePath ==
    \A k \in DOMAIN leaves :
        SharpenBValues(tree, leaves[k]) =
            IF config.upper_bound = "kullback-leibler"
            THEN ComputeUValues(tree, leaves[k])
            ELSE MinOf(PathValues(leaves[k], 0))

\* C8 as amended: without the Kullback-Leibler oracle the score of a leaf is
\* the minimum of the values of the leaf and its ancestors other than the
\* root (the root's own value when the root is the leaf); with it, the leaf's
\* own value.
C8_SharpenedBelowRoot ==
    \A k \in DOMAIN leaves :
        SharpenBValues(tree, leaves[k]) =
            IF config.upper_bound = "kullback-leibler" \/ leaves[k] = Root
            THEN ComputeUValues(tree, leaves[k])
            ELSE MinOf(PathValues(leaves[k], 1))

C8_Witness ==
    /\ config.upper_bound = "hoeffding"
    /\ \E k \in DOMAIN leaves :
           /\ Len(leaves[k]) >= 2
           /\ SharpenBValues(tree, leaves[k]) < ComputeUValues(tree, leaves[k])
           /\ SharpenBValues(tree, leaves[k]) > ComputeUValues(tree, Root)

\* C9: under lazy construction in an environment that reports its available
\* actions, a node's children are none or exactly the actions available in
\* the state the node's action prefix leads to.
C9_ChildrenCoverNodeState ==
    (config.lazy_tree_construction /\ env.kind = "masked") =>
        \A n \in DOMAIN tree :
            \/ tree[n].children = << >>
            \/ Range(tree[n].children) = Range(GetAvailableActions(StateAfter(n)))

\* C10: when the action to execute is not among the current node's children,
\* the rollout does not fail and advances to the child with the lowest action
\* identifier.
C10_AbsentActionSubstituted ==
    absent # NoNode =>
        /\ failure = "none"
        /\ node = ChildId(absent, MinOf(Range(tree[absent].children)))
        /\ tree[node].count >= 1

====
